---- MODULE Spec2Model ----
(***************************************************************************)
(* State-machine model of the multi-step forms of rhf-zod-playground:      *)
(*   "multi" : MultiStepSingleForm  (examples/multi-step-single-form)      *)
(*   "cond"  : ConditionalStepsForm (examples/conditional-steps)           *)
(* Both own one react-hook-form store (useForm with mode "onTouched",      *)
(* shouldUnregister false and a zodResolver over the full schema).         *)
(*                                                                         *)
(* Field values are abstracted to representatives: "" is the empty string, *)
(* "undefined" is the JavaScript value undefined, every other value is one *)
(* value that passes the field's own checks.                               *)
(*                                                                         *)
(* Every `await` of a handler is a suspension point: the handler's         *)
(* continuation is a separate action, and other events may run between     *)
(* the two.  The data a suspended handler closed over is kept in the       *)
(* pending entry (nextQ, submitQ).                                         *)
(*                                                                         *)
(* A run starts at step 0 with a record already in the store and no field  *)
(* blurred yet: MultiStepSingleForm reads it from the saved draft,         *)
(* ConditionalStepsForm got it from change events of its controls.         *)
(***************************************************************************)
EXTENDS Integers, Sequences, FiniteSets, Bags, TLC

\* ------------------------------------------------------------------ bounds
MaxEdits == 1      \* user interactions with fields (change, blur) per run
MaxPending == 2    \* handlers suspended at an await at one time
MaxSubmits == 2    \* Complete activations per run

\* ------------------------------------------------------------------ values
Forms == {"multi", "cond"}
Undefined == "undefined"
NoError == "none"
Null == "null"

MultiFields ==
  {"email", "password", "confirmPassword", "firstName", "lastName", "phone",
   "accountType", "companyName", "teamSize", "role"}

CondFields ==
  {"name", "email", "attendanceType", "dietaryRestrictions", "tshirtSize",
   "timezone", "platformPreference", "howDidYouHear"}

FormFields(fm) == IF fm = "multi" THEN MultiFields ELSE CondFields

Discriminator(fm) == IF fm = "multi" THEN "accountType" ELSE "attendanceType"

defaultOnboardingValues ==
  [email |-> "", password |-> "", confirmPassword |-> "", firstName |-> "",
   lastName |-> "", phone |-> "", accountType |-> "personal",
   companyName |-> "", teamSize |-> Undefined, role |-> ""]

defaultValues ==
  [name |-> "", email |-> "", attendanceType |-> "in-person",
   dietaryRestrictions |-> "", tshirtSize |-> Undefined, timezone |-> "",
   platformPreference |-> Undefined, howDidYouHear |-> ""]

Defaults(fm) == IF fm = "multi" THEN defaultOnboardingValues ELSE defaultValues

\* The values a control of the form can put into a field.
Dom(fm, f) ==
  IF fm = "multi" THEN
    CASE f = "email" -> {"", "a@b.co", "taken@example.com"}
      [] f = "password" -> {"", "Passw0rd"}
      [] f = "confirmPassword" -> {"", "Passw0rd", "Other0ne"}
      [] f = "firstName" -> {"", "Ada"}
      [] f = "lastName" -> {"", "Byron"}
      [] f = "phone" -> {"", "+1234567890"}
      [] f = "accountType" -> {"personal", "business"}
      [] f = "companyName" -> {"", "Acme"}
      [] f = "teamSize" -> {Undefined, "5"}
      [] f = "role" -> {"", "founder"}
  ELSE
    CASE f = "name" -> {"", "Ada"}
      [] f = "email" -> {"", "a@b.co", "taken@example.com"}
      [] f = "attendanceType" -> {"in-person", "virtual", "hybrid"}
      [] f = "dietaryRestrictions" -> {"", "None"}
      [] f = "tshirtSize" -> {Undefined, "m"}
      [] f = "timezone" -> {"", "UTC"}
      [] f = "platformPreference" -> {Undefined, "zoom"}
      [] f = "howDidYouHear" -> {"", "friend"}

\* JavaScript falsiness of a field value (!x): "" and undefined.
Falsy(v) == v = "" \/ v = Undefined

Issue(p, m) == [path |-> p, message |-> m]

\* ------------------------------------------------------------ the schemas
\* z.object({...}) of onboardingSchema: the issues of the fields, in key order.
OnboardingObjectIssues(d) ==
     (IF d.email = ""
        THEN <<Issue("email", "Email is required"),
               Issue("email", "Invalid email format")>> ELSE <<>>)
  \o (IF d.password = ""
        THEN <<Issue("password", "Password must be at least 8 characters"),
               Issue("password", "Password must contain at least one uppercase letter"),
               Issue("password", "Password must contain at least one number")>>
        ELSE <<>>)
  \o (IF d.confirmPassword = ""
        THEN <<Issue("confirmPassword", "Please confirm your password")>> ELSE <<>>)
  \o (IF d.firstName = ""
        THEN <<Issue("firstName", "First name is required")>> ELSE <<>>)
  \o (IF d.lastName = ""
        THEN <<Issue("lastName", "Last name is required")>> ELSE <<>>)
  \o (IF d.phone = ""
        THEN <<Issue("phone", "Phone number is required"),
               Issue("phone", "Invalid phone number format")>> ELSE <<>>)

\* .superRefine of onboardingSchema: passwords match, business needs a company.
OnboardingRefineIssues(d) ==
     (IF d.password # d.confirmPassword
        THEN <<Issue("confirmPassword", "Passwords do not match")>> ELSE <<>>)
  \o (IF d.accountType = "business"
        THEN (IF Falsy(d.companyName)
                THEN <<Issue("companyName", "Company name is required for business accounts")>>
                ELSE <<>>)
          \o (IF Falsy(d.teamSize)
                THEN <<Issue("teamSize", "Team size is required for business accounts")>>
                ELSE <<>>)
        ELSE <<>>)

onboardingSchema(d) == OnboardingObjectIssues(d) \o OnboardingRefineIssues(d)

\* z.object({...}) of eventRegistrationSchema.
EventObjectIssues(d) ==
     (IF d.name = "" THEN <<Issue("name", "Name is required")>> ELSE <<>>)
  \o (IF d.email = ""
        THEN <<Issue("email", "Email is required"),
               Issue("email", "Invalid email")>> ELSE <<>>)
  \o (IF d.howDidYouHear = ""
        THEN <<Issue("howDidYouHear", "Please tell us how you heard about us")>>
        ELSE <<>>)

\* .superRefine of eventRegistrationSchema.
EventRefineIssues(d) ==
     (IF d.attendanceType \in {"in-person", "hybrid"}
        THEN (IF Falsy(d.dietaryRestrictions)
                THEN <<Issue("dietaryRestrictions", "Please specify dietary restrictions (or 'None')")>>
                ELSE <<>>)
          \o (IF Falsy(d.tshirtSize)
                THEN <<Issue("tshirtSize", "T-shirt size is required for in-person attendees")>>
                ELSE <<>>)
        ELSE <<>>)
  \o (IF d.attendanceType \in {"virtual", "hybrid"}
        THEN (IF Falsy(d.timezone)
                THEN <<Issue("timezone", "Timezone is required for virtual attendance")>>
                ELSE <<>>)
          \o (IF Falsy(d.platformPreference)
                THEN <<Issue("platformPreference", "Please select your preferred platform")>>
                ELSE <<>>)
        ELSE <<>>)

eventRegistrationSchema(d) == EventObjectIssues(d) \o EventRefineIssues(d)

\* The schema the form's resolver runs: the issues of record d, in evaluation order.
Schema(fm, d) == IF fm = "multi" THEN onboardingSchema(d) ELSE eventRegistrationSchema(d)

\* The resolver's field errors: for every path the message of its first issue.
FirstMessage(issues, f) ==
  IF \E i \in 1..Len(issues) : issues[i].path = f
    THEN issues[CHOOSE i \in 1..Len(issues) :
                  /\ issues[i].path = f
                  /\ \A j \in 1..(i - 1) : issues[j].path # f].message
    ELSE NoError

zodResolver(fm, d) == [f \in FormFields(fm) |-> FirstMessage(Schema(fm, d), f)]

NoErrors(fm) == [f \in FormFields(fm) |-> NoError]


\* ------------------------------------------------------------ step lists
Step(l, fs) == [label |-> l, fields |-> fs]

AccountStepConfig == Step("Account", <<"email", "password", "confirmPassword">>)
ProfileStepConfig == Step("Profile", <<"firstName", "lastName", "phone">>)
AccountTypeStepConfig == Step("Account Type", <<"accountType">>)
CompanyStepConfig == Step("Company", <<"companyName", "teamSize", "role">>)

BasicInfoStepConfig == Step("Basic Info", <<"name", "email">>)
AttendanceStepConfig == Step("Attendance", <<"attendanceType">>)
InPersonStepConfig == Step("In-Person", <<"dietaryRestrictions", "tshirtSize">>)
VirtualStepConfig == Step("Virtual", <<"timezone", "platformPreference">>)
FinishStepConfig == Step("Finish", <<"howDidYouHear">>)

\* MultiStepSingleForm: accountType = watch("accountType"); steps = useMemo(...).
MultiSteps(d) ==
  <<AccountStepConfig, ProfileStepConfig, AccountTypeStepConfig>>
    \o (IF d.accountType = "business" THEN <<CompanyStepConfig>> ELSE <<>>)

\* Mutant of CondSteps: the two pushes of the hybrid branch are swapped.
CondStepsSwapped(d) ==
  <<BasicInfoStepConfig, AttendanceStepConfig>>
    \o (IF d.attendanceType = "in-person" THEN <<InPersonStepConfig>>
        ELSE IF d.attendanceType = "virtual" THEN <<VirtualStepConfig>>
        ELSE IF d.attendanceType = "hybrid" THEN <<VirtualStepConfig, InPersonStepConfig>>
        ELSE <<>>)
    \o <<FinishStepConfig>>

\* ConditionalStepsForm: attendanceType = watch("attendanceType"); steps = useMemo(...).
CondSteps(d) ==
  <<BasicInfoStepConfig, AttendanceStepConfig>>
    \o (IF d.attendanceType = "in-person" THEN <<InPersonStepConfig>>
        ELSE IF d.attendanceType = "virtual" THEN <<VirtualStepConfig>>
        ELSE IF d.attendanceType = "hybrid" THEN <<InPersonStepConfig, VirtualStepConfig>>
        ELSE <<>>)
    \o <<FinishStepConfig>>

\* The step list a render computes from the store's values.
computeSteps(fm, d) == IF fm = "multi" THEN MultiSteps(d) ELSE CondSteps(d)

Range(s) == {s[i] : i \in 1..Len(s)}
Min(a, b) == IF a < b THEN a ELSE b
Max(a, b) == IF a > b THEN a ELSE b

\* steps[i] of the code (0-based) is defined.
StepExists(stps, i) == (i + 1) \in 1..Len(stps)

\* The fields of steps[i], the empty set when steps[i] is undefined.
FieldsAt(stps, i) == IF StepExists(stps, i) THEN Range(stps[i + 1].fields) ELSE {}

\* Mutant of safeCurrentStep: the bound is the length, not the last index.
safeCurrentStepOffByOne(cs, len) == Min(cs, len)

\* ConditionalStepsForm: safeCurrentStep = Math.min(currentStep, steps.length - 1).
safeCurrentStep(cs, len) == Min(cs, len - 1)

\* The index the committed render shows after setCurrentStep(cs): only
\* ConditionalStepsForm re-sets an index that is out of bounds while rendering.
Rendered(fm, cs, stps) == IF fm = "cond" THEN safeCurrentStep(cs, Len(stps)) ELSE cs

\* handleNext: setCurrentStep((prev) => Math.min(prev + 1, steps.length - 1)).
NextIndex(prev, len) == Min(prev + 1, len - 1)

\* handleBack: setCurrentStep((prev) => Math.max(prev - 1, 0)).
BackIndex(prev) == Max(prev - 1, 0)

\* ------------------------------------------------------ the draft storage
STORAGE_KEY == "multi-step-form-draft"

\* JSON.stringify(data) followed by JSON.parse: keys holding undefined are dropped.
JSONRoundTrip(d) == [f \in {g \in DOMAIN d : d[g] # Undefined} |-> d[f]]

\* { ...defaultOnboardingValues, ...JSON.parse(saved) }
Overlay(base, saved) ==
  [f \in DOMAIN base |-> IF f \in DOMAIN saved THEN saved[f] ELSE base[f]]

\* Content of the key that JSON.parse throws on.
NotJSON == [unparsable |-> "{"]

\* Mutant of savedValues: the spread puts the defaults last.
savedValuesDefaultsLast(stored) == defaultOnboardingValues

\* savedValues: the defaults when the key is absent or JSON.parse throws, else
\* the defaults overlaid with the saved values.
savedValues(stored) ==
  IF stored = {} THEN defaultOnboardingValues
  ELSE IF stored = {NotJSON} THEN defaultOnboardingValues
  ELSE Overlay(defaultOnboardingValues, CHOOSE d \in stored : TRUE)

ValidPersonal ==
  [defaultOnboardingValues EXCEPT !.email = "a@b.co", !.password = "Passw0rd",
     !.confirmPassword = "Passw0rd", !.firstName = "Ada", !.lastName = "Byron",
     !.phone = "+1234567890"]

ValidBusiness ==
  [ValidPersonal EXCEPT !.accountType = "business", !.companyName = "Acme",
     !.teamSize = "5", !.role = "founder"]

ValidInPerson ==
  [defaultValues EXCEPT !.name = "Ada", !.email = "a@b.co",
     !.dietaryRestrictions = "None", !.tshirtSize = "m", !.howDidYouHear = "friend"]

\* Records typed into ConditionalStepsForm before the run starts.
InitialRecords ==
  {defaultValues, ValidInPerson, [ValidInPerson EXCEPT !.attendanceType = "hybrid"]}

\* Drafts an earlier session of MultiStepSingleForm can have left under STORAGE_KEY.
InitialDrafts ==
  {{}, {NotJSON}, {JSONRoundTrip(ValidPersonal)},
   {JSONRoundTrip([ValidPersonal EXCEPT !.email = "taken@example.com"])},
   {JSONRoundTrip([ValidPersonal EXCEPT !.accountType = "business"])},
   {JSONRoundTrip(ValidBusiness)}}


\* ------------------------------------------------------------------ state
VARIABLES
  form,          \* which form component is mounted
  formData,      \* FormPerStep: useState<FormData>({}), per key {} or {record}
  isLoadingDrafts, \* FormPerStep: useState(true)
  values,        \* the store's field values (_formValues); FormPerStep: those
                 \* of the step form that is mounted
  errors,        \* the displayed error of every field (formState.errors)
  touched,       \* formState.touchedFields
  isSubmitted,   \* formState.isSubmitted
  currentStep,   \* useState(0), as the committed render shows it
  rawStep,       \* currentStep as the last render found it, before it re-set it
  steps,         \* the memoized step list of the committed render
  isSubmitting,  \* useState(false); FormPerStep: isLoading
  submitResult,  \* useState(null)
  draft,         \* localStorage[STORAGE_KEY]: {} when absent, else {record};
                 \* FormPerStep: localStorage["onboarding-drafts"]
  nextQ,         \* bag of handleNext calls suspended at `await validateCurrentStep()`
  submitQ,       \* Complete activations suspended in handleSubmit / onSubmit
  edits,         \* field interactions so far
  acts           \* history, per Complete activation: was the pressed record
                 \* valid, how many calls it started, did they carry that record

vars ==
  <<form, formData, isLoadingDrafts, values, errors, touched, isSubmitted,
    currentStep, rawStep, steps, isSubmitting, submitResult, draft, nextQ,
    submitQ, edits, acts>>

\* The state only FormPerStep has.
fpsVars == <<formData, isLoadingDrafts>>

\* FormData's keys, in the order of STEPS.
Keys == <<"account", "profile", "preferences">>

\* formData = {}: every key undefined.
NoFormData == [k \in Range(Keys) |-> {}]

NullResult == [isNull |-> TRUE, success |-> FALSE, message |-> <<>>]
Result(ok, msg) == [isNull |-> FALSE, success |-> ok, message |-> msg]

\* if (submitResult?.success) return <the confirmation screen>
SuccessScreen == submitResult.success

isLastStep == currentStep = Len(steps) - 1

\* The fields whose controls are on screen.
VisibleFields == IF SuccessScreen THEN {} ELSE FieldsAt(steps, currentStep)

\* Mutant of shouldUnregister: the library's default is kept out of the options.
shouldUnregisterTrue == TRUE

\* useForm({ shouldUnregister: false }): values of unmounted controls are kept.
shouldUnregister == FALSE

\* The store's values once the controls of the fields F have unmounted.
Unregister(vals, F) ==
  IF shouldUnregister
    THEN [f \in DOMAIN vals |-> IF f \in F THEN Undefined ELSE vals[f]]
    ELSE vals

\* setCurrentStep(raw) and the render that follows it.
Commit(raw, stps) ==
  /\ rawStep' = raw
  /\ currentStep' = Rendered(form, raw, stps)

\* A render that finds currentStep as it was.
Rerender == Commit(currentStep, steps)

\* Handlers suspended at an await.
Pending == BagCardinality(nextQ) + Cardinality(submitQ)

Init ==
  /\ form \in Forms
  /\ formData = NoFormData
  /\ isLoadingDrafts = FALSE
  /\ draft \in (IF form = "multi" THEN InitialDrafts ELSE {{}})
  /\ values \in (IF form = "multi" THEN {savedValues(draft)} ELSE InitialRecords)
  /\ errors = NoErrors(form)
  /\ touched = {}
  /\ isSubmitted = FALSE
  /\ currentStep = 0
  /\ rawStep = 0
  /\ steps = computeSteps(form, values)
  /\ isSubmitting = FALSE
  /\ submitResult = NullResult
  /\ nextQ = EmptyBag
  /\ submitQ = {}
  /\ edits = 0
  /\ acts = <<>>

\* -------------------------------------------------------- field controls
\* Mutant of AutoSave: the subscription saves the fields on screen only.
AutoSaveVisible(fm, stored, d) ==
  IF fm = "multi"
    THEN {JSONRoundTrip([f \in FieldsAt(computeSteps(fm, d), currentStep) |-> d[f]])}
    ELSE stored

\* The subscription watch((data) => localStorage.setItem(STORAGE_KEY, ...)).
AutoSave(fm, stored, d) == IF fm = "multi" THEN {JSONRoundTrip(d)} ELSE stored

\* Mutant of ValidatesOnChange: the mode is "onBlur".
ValidatesOnChangeModeOnBlur(f) == isSubmitted

\* mode "onTouched", reValidateMode "onChange": a change event validates the
\* field once it has been blurred or the form has been submitted.
ValidatesOnChange(f) == isSubmitted \/ f \in touched

\* A blur event validates the field until the form has been submitted.
ValidatesOnBlur == ~isSubmitted

\* The displayed errors after the resolver's result was applied to the fields F.
ApplyErrors(errs, F, result) ==
  [f \in DOMAIN errs |-> IF f \in F THEN result[f] ELSE errs[f]]

\* Mutant of Change: choosing another discriminator value resets the fields
\* of the steps that leave the list.
ChangeClearing(f, v) ==
  /\ edits < MaxEdits
  /\ f \in VisibleFields
  /\ v \in Dom(form, f) \ {values[f]}
  /\ LET changed == [values EXCEPT ![f] = v]
         left == UNION {Range(st.fields) : st \in Range(steps)}
                   \ UNION {Range(st.fields) : st \in Range(computeSteps(form, changed))}
     IN values' = [g \in DOMAIN values |->
                     IF g \in left THEN Defaults(form)[g] ELSE changed[g]]
  /\ draft' = AutoSave(form, draft, values')
  /\ errors' = IF ValidatesOnChange(f)
                 THEN ApplyErrors(errors, {f}, zodResolver(form, values'))
                 ELSE errors
  /\ steps' = computeSteps(form, values')
  /\ Commit(currentStep, steps')
  /\ edits' = edits + 1
  /\ UNCHANGED <<form, touched, isSubmitted, isSubmitting, submitResult, nextQ,
                 submitQ, acts>>
  /\ UNCHANGED fpsVars

\* field.onChange(v) of a control on screen.
Change(f, v) ==
  /\ edits < MaxEdits
  /\ f \in VisibleFields
  /\ v \in Dom(form, f) \ {values[f]}
  /\ values' = [values EXCEPT ![f] = v]
  /\ draft' = AutoSave(form, draft, values')
  /\ errors' = IF ValidatesOnChange(f)
                 THEN ApplyErrors(errors, {f}, zodResolver(form, values'))
                 ELSE errors
  /\ steps' = computeSteps(form, values')
  /\ Commit(currentStep, steps')
  /\ edits' = edits + 1
  /\ UNCHANGED <<form, touched, isSubmitted, isSubmitting, submitResult, nextQ,
                 submitQ, acts>>
  /\ UNCHANGED fpsVars

\* The cards of AccountTypeStep call field.onChange only: they never blur.
Blurs(fm, f) == ~(fm = "multi" /\ f = "accountType")

\* field.onBlur() of a control on screen.
Blur(f) ==
  /\ edits < MaxEdits
  /\ f \in VisibleFields
  /\ Blurs(form, f)
  /\ touched' = touched \cup {f}
  /\ errors' = IF ValidatesOnBlur
                 THEN ApplyErrors(errors, {f}, zodResolver(form, values))
                 ELSE errors
  /\ <<touched', errors'>> # <<touched, errors>>
  /\ edits' = edits + 1
  /\ Rerender
  /\ UNCHANGED <<form, values, isSubmitted, steps, isSubmitting, submitResult,
                 draft, nextQ, submitQ, acts>>
  /\ UNCHANGED fpsVars

\* ------------------------------------------------------------ navigation
\* trigger(fields): the resolver runs on the values of the moment of the call;
\* its result reaches the displayed errors of `fields` when the call resolves.
trigger(fm, d, F) == [f \in F |-> zodResolver(fm, d)[f]]

triggerIsValid(result) == \A f \in DOMAIN result : result[f] = NoError

\* Mutant of validateCurrentStep: trigger() is called without the field names.
validateAllFields(fm, stps, cs, d) ==
  IF ~StepExists(stps, cs)
    THEN [fields |-> {}, len |-> Len(stps), result |-> <<>>, isValid |-> FALSE]
    ELSE LET r == trigger(fm, d, FormFields(fm))
         IN [fields |-> FormFields(fm), len |-> Len(stps), result |-> r,
             isValid |-> triggerIsValid(r)]

\* validateCurrentStep up to its await, as handleNext calls it.
validateCurrentStep(fm, stps, cs, d) ==
  IF ~StepExists(stps, cs)
    THEN [fields |-> {}, len |-> Len(stps), result |-> <<>>, isValid |-> FALSE]
    ELSE LET r == trigger(fm, d, FieldsAt(stps, cs))
         IN [fields |-> FieldsAt(stps, cs), len |-> Len(stps), result |-> r,
             isValid |-> triggerIsValid(r)]

\* The Next button is rendered when the step is not the last one.
NextShown == ~SuccessScreen /\ ~isLastStep

\* handleNext, up to `await validateCurrentStep()`.
handleNext ==
  /\ NextShown
  /\ Pending < MaxPending
  /\ nextQ' = nextQ (+) SetToBag({[call |-> validateCurrentStep(form, steps, currentStep, values),
                                    shown |-> VisibleFields]})
  /\ Rerender
  /\ UNCHANGED <<form, values, errors, touched, isSubmitted, steps, isSubmitting,
                 submitResult, draft, submitQ, edits, acts>>
  /\ UNCHANGED fpsVars

\* Mutant of AfterValidation: the result of the validation is not looked at.
AfterValidationUnchecked(e, prev) == NextIndex(prev, e.len)

\* The index handleNext sets once the validation it awaited has resolved.
AfterValidation(e, prev) == IF e.isValid THEN NextIndex(prev, e.len) ELSE prev

\* handleNext, from the await on.
handleNextResume(e) ==
  /\ BagIn(e, nextQ)
  /\ errors' = ApplyErrors(errors, e.call.fields, e.call.result)
  /\ Commit(AfterValidation(e.call, currentStep), steps)
  /\ nextQ' = nextQ (-) SetToBag({e})
  /\ UNCHANGED <<form, touched, isSubmitted, steps, isSubmitting, submitResult,
                 draft, submitQ, edits, acts>>
  /\ values' = Unregister(values, VisibleFields \ VisibleFields')
  /\ UNCHANGED fpsVars

\* disabled={currentStep === 0 || isSubmitting}
BackEnabled == ~SuccessScreen /\ currentStep # 0 /\ ~isSubmitting

\* Mutant of handleBack: Back validates the step it leaves, as Next does.
handleBackValidating ==
  /\ BackEnabled
  /\ errors' = ApplyErrors(errors, FieldsAt(steps, currentStep),
                           trigger(form, values, FieldsAt(steps, currentStep)))
  /\ Commit(BackIndex(currentStep), steps)
  /\ UNCHANGED <<form, values, touched, isSubmitted, steps, isSubmitting,
                 submitResult, draft, nextQ, submitQ, edits, acts>>
  /\ UNCHANGED fpsVars

handleBack ==
  /\ BackEnabled
  /\ Commit(BackIndex(currentStep), steps)
  /\ UNCHANGED <<form, errors, touched, isSubmitted, steps, isSubmitting,
                 submitResult, draft, nextQ, submitQ, edits, acts>>
  /\ values' = Unregister(values, VisibleFields \ VisibleFields')
  /\ UNCHANGED fpsVars

\* ------------------------------------------------------------ submission
\* The Complete button is rendered on the last step, disabled={isSubmitting}.
CompleteEnabled == ~SuccessScreen /\ isLastStep /\ ~isSubmitting

\* The values the resolver hands to onSubmit: the schema's output for the record.
Parsed(fm, d) == [f \in FormFields(fm) |-> d[f]]

IsValidRecord(fm, d) == Schema(fm, d) = <<>>

\* handleSubmit(onSubmit), up to the await of the resolver: the resolver runs
\* on the values of the moment of the click; onSubmit and steps are those of
\* the render the button belongs to.
handleSubmit ==
  /\ CompleteEnabled
  /\ Len(acts) < MaxSubmits
  /\ Pending < MaxPending
  /\ acts' = Append(acts, [valid |-> IsValidRecord(form, values), calls |-> 0,
                            same |-> TRUE, reply |-> Null])
  /\ submitQ' = submitQ \cup
       {[id |-> Len(acts'), phase |-> "validating", pressed |-> values,
         data |-> Parsed(form, values), steps |-> steps]}
  /\ Rerender
  /\ UNCHANGED <<form, values, errors, touched, isSubmitted, steps, isSubmitting,
                 submitResult, draft, nextQ, edits>>
  /\ UNCHANGED fpsVars

\* steps.findIndex((step) => step.fields.includes(firstErrorPath)), 0-based.
findIndex(stps, path) ==
  IF \E i \in 1..Len(stps) : path \in Range(stps[i].fields)
    THEN (CHOOSE i \in 1..Len(stps) :
            /\ path \in Range(stps[i].fields)
            /\ \A j \in 1..(i - 1) : path \notin Range(stps[j].fields)) - 1
    ELSE -1

\* Mutant of CallData: the call reads the store when it starts.
CallDataLive(e) == Parsed(form, values)

\* The record submitOnboarding is called with.
CallData(e) == e.data

\* onSubmit, from setIsSubmitting(true) to the call of submitOnboarding.
StartCall(e) ==
  /\ isSubmitting' = TRUE
  /\ submitResult' = NullResult
  /\ submitQ' = (submitQ \ {e}) \cup {[e EXCEPT !.phase = "calling", !.data = CallData(e)]}
  /\ acts' = [acts EXCEPT ![e.id] = [@ EXCEPT !.calls = @ + 1,
                                        !.same = @ /\ CallData(e) = e.pressed]]
  /\ Rerender
  /\ UNCHANGED isSubmitted

\* handleSubmit's end when no call was started: formState.isSubmitted = true.
EndWithoutCall(e, cs) ==
  /\ Commit(cs, steps)
  /\ isSubmitted' = TRUE
  /\ submitQ' = submitQ \ {e}
  /\ UNCHANGED <<isSubmitting, submitResult, acts>>

\* MultiStepSingleForm's onSubmit up to its await: the second pass of the full
\* schema and, on an issue, the jump to the step that owns the first one.
onSubmitMulti(e) ==
  LET issues == onboardingSchema(e.data)
      stepWithError == findIndex(e.steps, issues[1].path)
  IN IF issues # <<>>
       THEN EndWithoutCall(e, IF stepWithError # -1 THEN stepWithError ELSE currentStep)
       ELSE StartCall(e)

\* ConditionalStepsForm's onSubmit up to its await.
onSubmitCond(e) == StartCall(e)

onSubmit(e) == IF form = "multi" THEN onSubmitMulti(e) ELSE onSubmitCond(e)

\* handleSubmit runs onSubmit only when the resolver reported no error.
RunsOnSubmit(fm, errs) == errs = NoErrors(fm)

\* handleSubmit, from the resolver's result on: the result replaces the
\* displayed errors of all fields.
handleSubmitResume(e) ==
  /\ e \in submitQ
  /\ e.phase = "validating"
  /\ errors' = zodResolver(form, e.data)
  /\ IF RunsOnSubmit(form, errors') THEN onSubmit(e) ELSE EndWithoutCall(e, currentStep)
  /\ UNCHANGED <<form, touched, steps, draft, nextQ, edits>>
  /\ values' = Unregister(values, VisibleFields \ VisibleFields')
  /\ UNCHANGED fpsVars

Reply(ok, err, id) == [success |-> ok, error |-> err, id |-> id, rejected |-> FALSE]
Rejection == [success |-> FALSE, error |-> "", id |-> "", rejected |-> TRUE]

\* The replies of the mock endpoint to `data`.
submitOnboarding(data) ==
  {Reply(FALSE, "Server error. Please try again.", "")}
    \cup (IF data.email = "taken@example.com"
            THEN {Reply(FALSE, "This email is already registered.", "")}
            ELSE {Reply(TRUE, "", "user_1")})

\* ApiResponse's error is optional: a failure that carries no error string.
BareFailure == Reply(FALSE, Undefined, "")

\* What the awaited call can end with: a reply of the mock endpoint, a
\* failure without an error string, or a rejected promise.
Outcomes(data) == submitOnboarding(data) \cup {BareFailure, Rejection}

SuccessText(fm) ==
  IF fm = "multi" THEN "Account created successfully! ID: "
  ELSE "Registration complete! Confirmation ID: "

\* Mutant of OrElse: the reply's error string is not looked at.
OrElseDefault(err, dflt) == dflt

\* response.error || "Something went wrong"
OrElse(err, dflt) == IF Falsy(err) THEN dflt ELSE err

\* The submitResult onSubmit sets from the outcome of the call.
ResultOf(fm, r) ==
  IF r.rejected THEN Result(FALSE, <<"Network error. Please try again.">>)
  ELSE IF r.success THEN Result(TRUE, <<SuccessText(fm), r.id>>)
  ELSE Result(FALSE, <<OrElse(r.error, "Something went wrong")>>)

\* What the endpoint answered, as the history of the activation keeps it.
ReplyTag(r) ==
  IF r.rejected THEN "rejected" ELSE IF r.success THEN "success" ELSE r.error

\* Mutant of DraftAfter: the draft is removed whatever the reply.
DraftAfterAlways(fm, r, stored) == IF fm = "multi" THEN {} ELSE stored

\* localStorage.removeItem(STORAGE_KEY) on success, in MultiStepSingleForm only.
DraftAfter(fm, r, stored) ==
  IF fm = "multi" /\ ~r.rejected /\ r.success THEN {} ELSE stored

\* onSubmit from the await of submitOnboarding on, then handleSubmit's end.
onSubmitResume(e, r) ==
  /\ e \in submitQ
  /\ e.phase = "calling"
  /\ r \in Outcomes(e.data)
  /\ draft' = DraftAfter(form, r, draft)
  /\ submitResult' = ResultOf(form, r)
  /\ isSubmitting' = FALSE
  /\ isSubmitted' = TRUE
  /\ submitQ' = submitQ \ {e}
  /\ acts' = [acts EXCEPT ![e.id] = [@ EXCEPT !.reply = ReplyTag(r)]]
  /\ Rerender
  /\ UNCHANGED <<form, errors, touched, steps, nextQ, edits>>
  /\ values' = Unregister(values, VisibleFields \ VisibleFields')
  /\ UNCHANGED fpsVars

\* handleReset: the button of the confirmation screen.  reset(defaults) tells
\* the watch subscription, which saves the defaults as the new draft.
handleReset ==
  /\ SuccessScreen
  /\ values' = Defaults(form)
  /\ errors' = NoErrors(form)
  /\ touched' = {}
  /\ isSubmitted' = FALSE
  /\ draft' = AutoSave(form, {}, values')
  /\ steps' = computeSteps(form, values')
  /\ Commit(0, steps')
  /\ submitResult' = NullResult
  /\ UNCHANGED <<form, isSubmitting, nextQ, submitQ, edits, acts>>
  /\ UNCHANGED fpsVars

\* ---------------------------------------------------------- specification
Next ==
  \/ \E f \in FormFields(form) : \E v \in Dom(form, f) : Change(f, v)
  \/ \E f \in FormFields(form) : Blur(f)
  \/ handleNext
  \/ \E e \in BagToSet(nextQ) : handleNextResume(e)
  \/ handleBack
  \/ handleSubmit
  \/ \E e \in submitQ : handleSubmitResume(e)
  \/ \E e \in submitQ : \E r \in Outcomes(e.data) : onSubmitResume(e, r)
  \/ handleReset

Spec == Init /\ [][Next]_vars


\* The page is loaded again: MultiStepSingleForm mounts anew (useState(0),
\* useForm({ defaultValues: savedValues })); the handlers of the page that
\* was left are gone with it.
Start ==
  /\ form = "multi"
  /\ values' = savedValues(draft)
  /\ errors' = NoErrors(form)
  /\ touched' = {}
  /\ isSubmitted' = FALSE
  /\ steps' = computeSteps(form, values')
  /\ Commit(0, steps')
  /\ isSubmitting' = FALSE
  /\ submitResult' = NullResult
  /\ nextQ' = EmptyBag
  /\ submitQ' = {}
  /\ <<values', errors', touched', isSubmitted', currentStep', isSubmitting',
        submitResult', nextQ', submitQ'>>
       # <<values, errors, touched, isSubmitted, currentStep, isSubmitting,
           submitResult, nextQ, submitQ>>
  /\ UNCHANGED <<form, draft, edits, acts>>
  /\ UNCHANGED fpsVars

NextRestart == Next \/ Start

\* The two single-store forms, with reloads of the page.
SpecRestart == Init /\ [][NextRestart]_vars


\* ============================================================ FormPerStep
\* const STEPS = ["Account", "Profile", "Preferences"]: each step is a form of
\* its own, with its own useForm and its own schema.
STEPS ==
  <<Step("Account", <<"email", "password", "confirmPassword">>),
    Step("Profile", <<"firstName", "lastName", "phone">>),
    Step("Preferences", <<"newsletter", "notifications", "theme", "language">>)>>

\* The key of FormData the step at index i commits to.
StepKey(i) == Keys[i + 1]

StepFormFields(k) == Range(STEPS[CHOOSE i \in 1..Len(Keys) : Keys[i] = k].fields)

\* The defaultValues each step form writes before `...defaultValues`.
StepFormDefaults(k) ==
  CASE k = "account" -> [email |-> "", password |-> "", confirmPassword |-> ""]
    [] k = "profile" -> [firstName |-> "", lastName |-> "", phone |-> ""]
    [] k = "preferences" -> [newsletter |-> "false", notifications |-> "true",
                             theme |-> "system", language |-> ""]

\* The values a control of a step form can put into a field.
StepDom(k, f) ==
  IF k # "preferences" THEN Dom("multi", f)
  ELSE CASE f = "newsletter" -> {"false", "true"}
         [] f = "notifications" -> {"true", "false"}
         [] f = "theme" -> {"system", "dark"}
         [] f = "language" -> {"", "en"}

\* accountStepSchema: the three field checks, then .refine (passwords match).
accountStepSchema(d) ==
     (IF d.email = ""
        THEN <<Issue("email", "Email is required"),
               Issue("email", "Invalid email format")>> ELSE <<>>)
  \o (IF d.password = ""
        THEN <<Issue("password", "Password must be at least 8 characters"),
               Issue("password", "Password must contain at least one uppercase letter"),
               Issue("password", "Password must contain at least one number")>>
        ELSE <<>>)
  \o (IF d.confirmPassword = ""
        THEN <<Issue("confirmPassword", "Please confirm your password")>> ELSE <<>>)
  \o (IF d.password # d.confirmPassword
        THEN <<Issue("confirmPassword", "Passwords do not match")>> ELSE <<>>)

profileStepSchema(d) ==
     (IF d.firstName = ""
        THEN <<Issue("firstName", "First name is required")>> ELSE <<>>)
  \o (IF d.lastName = ""
        THEN <<Issue("lastName", "Last name is required")>> ELSE <<>>)
  \o (IF d.phone = ""
        THEN <<Issue("phone", "Phone number is required"),
               Issue("phone", "Invalid phone number format")>> ELSE <<>>)

preferencesSchema(d) ==
  IF d.language = ""
    THEN <<Issue("language", "Please select a language")>> ELSE <<>>

StepSchema(k, d) ==
  CASE k = "account" -> accountStepSchema(d)
    [] k = "profile" -> profileStepSchema(d)
    [] k = "preferences" -> preferencesSchema(d)

\* zodResolver(<step schema>) of the step form.
StepResolver(k, d) == [f \in StepFormFields(k) |-> FirstMessage(StepSchema(k, d), f)]

\* ---- localStorage["onboarding-drafts"]: {} when the key is absent, a set of
\* [key, data] entries (one per key) when it holds an object, Unparsable when
\* its content is not JSON.
Unparsable == {[key |-> "", data |-> NotJSON]}

Parses(store) == store # Unparsable

HasDraft(store, k) == \E x \in store : x.key = k

DraftOf(store, k) == (CHOOSE x \in store : x.key = k).data

\* Mutant of saveDraft: the stored object is not read before the write.
saveDraftNoMerge(store, k, d) == {[key |-> k, data |-> JSONRoundTrip(d)]}

\* Mutant of saveDraft: a key that holds a draft is not written again.
saveDraftKeepFirst(store, k, d) ==
  IF \E x \in store : x.key = k THEN store
  ELSE store \cup {[key |-> k, data |-> JSONRoundTrip(d)]}

\* saveDraft's write: drafts[step] = data; setItem(JSON.stringify(drafts)).
saveDraft(store, k, d) ==
  {x \in store : x.key # k} \cup {[key |-> k, data |-> JSONRoundTrip(d)]}

\* loadDraft's reply: {success: true, data} or {success: false, error}.
loadDraft(store, k) ==
  IF HasDraft(store, k)
    THEN [success |-> TRUE, data |-> {DraftOf(store, k)}, error |-> ""]
    ELSE [success |-> FALSE, data |-> {}, error |-> "No draft found"]

\* Mutant of clearDrafts: only the key "onboarding-form-draft" is removed.
clearDraftsOtherKey(store) == store

\* clearDrafts: removeItem("onboarding-drafts").
clearDrafts(store) == {}

\* The entry of formData loadAllDrafts makes of a reply.
Loaded(reply) == IF reply.success THEN reply.data ELSE {}

ValidAccount == [email |-> "a@b.co", password |-> "Passw0rd", confirmPassword |-> "Passw0rd"]
ValidProfile == [firstName |-> "Ada", lastName |-> "Byron", phone |-> "+1234567890"]
ValidPreferences == [newsletter |-> "false", notifications |-> "true",
                     theme |-> "system", language |-> "en"]

ValidDraft(k) ==
  CASE k = "account" -> ValidAccount
    [] k = "profile" -> ValidProfile
    [] k = "preferences" -> ValidPreferences

\* The drafts earlier sessions can have left: any subset of the keys, or
\* content that is not JSON.
InitialStores ==
  {{[key |-> k, data |-> ValidDraft(k)] : k \in K} : K \in SUBSET Range(Keys)}
    \cup {Unparsable}

\* ---- the step forms
\* An optional record ({} or {record}) as the object a spread makes of it.
Opt(s) == IF s = {} THEN <<>> ELSE CHOOSE d \in s : TRUE

\* { ...a, ...b }
Spread(a, b) ==
  [f \in DOMAIN a \cup DOMAIN b |-> IF f \in DOMAIN b THEN b[f] ELSE a[f]]

\* useForm({ defaultValues: { <the step's defaults>, ...defaultValues } }) with
\* defaultValues = formData.<key> || {}.
Mount(k, fd) == Spread(StepFormDefaults(k), Opt(fd[k]))

\* A step form is on screen: neither the loading card nor the success card.
FormMounted == form = "fps" /\ ~isLoadingDrafts /\ ~SuccessScreen

\* The step form of index i mounts with the aggregate fd.
MountStep(i, fd) ==
  /\ values' = Mount(StepKey(i), fd)
  /\ errors' = [f \in StepFormFields(StepKey(i)) |-> NoError]
  /\ touched' = {}
  /\ isSubmitted' = FALSE

\* No step form is on screen.
NoStepForm ==
  /\ values' = <<>>
  /\ errors' = <<>>
  /\ touched' = {}
  /\ isSubmitted' = FALSE

KeepStepForm == UNCHANGED <<values, errors, touched, isSubmitted>>

\* The render after the component's state changed: the step form stays when
\* the same step is shown as before, else the new one mounts.
RenderStep ==
  IF submitResult'.success THEN NoStepForm
  ELSE IF currentStep' = currentStep /\ FormMounted THEN KeepStepForm
  ELSE MountStep(currentStep', formData')

\* Handlers of a step form that has unmounted no longer reach a form state.
Detach(q) == {[e EXCEPT !.attached = FALSE] : e \in q}

\* The pending handlers after a render: detached when the step form changed.
AfterRender(q) ==
  IF ~submitResult'.success /\ currentStep' = currentStep /\ FormMounted
    THEN q ELSE Detach(q)

SetStep(i) == currentStep' = i /\ rawStep' = i

\* A pending handler: the load on mount, or a step form's submission.
LoadEntry ==
  [id |-> 0, phase |-> "loading", key |-> "", data |-> <<>>,
   formData |-> NoFormData, attached |-> FALSE]

FreeId == CHOOSE i \in 1..MaxPending : \A e \in submitQ : e.id # i

InitFPS ==
  /\ form = "fps"
  /\ draft \in InitialStores
  /\ formData = NoFormData
  /\ isLoadingDrafts = TRUE
  /\ values = <<>>
  /\ errors = <<>>
  /\ touched = {}
  /\ isSubmitted = FALSE
  /\ currentStep = 0
  /\ rawStep = 0
  /\ steps = STEPS
  /\ isSubmitting = FALSE
  /\ submitResult = NullResult
  /\ nextQ = EmptyBag
  /\ submitQ = {LoadEntry}
  /\ edits = 0
  /\ acts = <<>>

\* loadAllDrafts, from `await Promise.all([...])` on: the three loadDraft
\* calls have read the store; a store that does not parse makes them throw.
loadAllDrafts(e) ==
  /\ form = "fps"
  /\ e \in submitQ
  /\ e.phase = "loading"
  /\ submitQ' = submitQ \ {e}
  /\ IF Parses(draft)
       THEN /\ formData' = [k \in Range(Keys) |-> Loaded(loadDraft(draft, k))]
            /\ isLoadingDrafts' = FALSE
            /\ MountStep(currentStep, formData')
       ELSE /\ UNCHANGED <<formData, isLoadingDrafts>>
            /\ KeepStepForm
  /\ UNCHANGED <<form, currentStep, rawStep, steps, isSubmitting, submitResult,
                 draft, nextQ, edits, acts>>

\* onChange of a control of the mounted step form.
ChangeFPS(f, v) ==
  /\ FormMounted
  /\ edits < MaxEdits
  /\ f \in DOMAIN values
  /\ v \in StepDom(StepKey(currentStep), f) \ {values[f]}
  /\ values' = [values EXCEPT ![f] = v]
  /\ errors' = IF ValidatesOnChange(f)
                 THEN ApplyErrors(errors, {f}, StepResolver(StepKey(currentStep), values'))
                 ELSE errors
  /\ edits' = edits + 1
  /\ UNCHANGED <<form, formData, isLoadingDrafts, touched, isSubmitted, currentStep,
                 rawStep, steps, isSubmitting, submitResult, draft, nextQ, submitQ,
                 acts>>

\* The checkboxes of the Preferences step pass no onBlur.
BlursFPS(f) == f \notin {"newsletter", "notifications"}

\* onBlur of a control of the mounted step form.
BlurFPS(f) ==
  /\ FormMounted
  /\ edits < MaxEdits
  /\ f \in DOMAIN values
  /\ BlursFPS(f)
  /\ touched' = touched \cup {f}
  /\ errors' = IF ValidatesOnBlur
                 THEN ApplyErrors(errors, {f}, StepResolver(StepKey(currentStep), values))
                 ELSE errors
  /\ <<touched', errors'>> # <<touched, errors>>
  /\ edits' = edits + 1
  /\ UNCHANGED <<form, formData, isLoadingDrafts, values, isSubmitted, currentStep,
                 rawStep, steps, isSubmitting, submitResult, draft, nextQ, submitQ,
                 acts>>

\* The submit button of the mounted step form: disabled={isLoading}.
StepSubmitEnabled == FormMounted /\ ~isSubmitting

\* <form onSubmit={handleSubmit(onSubmit)}>, up to the await of the resolver.
\* onSubmit is the handler of the render the form belongs to: it closes over
\* that render's formData.
handleStepSubmit ==
  /\ StepSubmitEnabled
  /\ Pending < MaxPending
  /\ submitQ' = submitQ \cup
       {[id |-> FreeId, phase |-> "validating", key |-> StepKey(currentStep),
         data |-> values, formData |-> formData, attached |-> TRUE]}
  /\ UNCHANGED <<form, formData, isLoadingDrafts, values, errors, touched,
                 isSubmitted, currentStep, rawStep, steps, isSubmitting,
                 submitResult, draft, nextQ, edits, acts>>

StepIsValid(k, d) == StepSchema(k, d) = <<>>

\* handleSubmit from the resolver's result on: on errors they are displayed
\* and the submission ends; else the step's handler runs to its first await
\* (setIsLoading(true); await saveDraft(key, data)).
resolveStepSubmit(e) ==
  /\ form = "fps"
  /\ e \in submitQ
  /\ e.phase = "validating"
  /\ errors' = IF e.attached THEN StepResolver(e.key, e.data) ELSE errors
  /\ IF StepIsValid(e.key, e.data)
       THEN /\ isSubmitting' = TRUE
            /\ submitQ' = (submitQ \ {e}) \cup {[e EXCEPT !.phase = "saving"]}
            /\ UNCHANGED isSubmitted
       ELSE /\ isSubmitted' = (isSubmitted \/ e.attached)
            /\ submitQ' = submitQ \ {e}
            /\ UNCHANGED isSubmitting
  /\ UNCHANGED <<form, formData, isLoadingDrafts, values, touched, currentStep,
                 rawStep, steps, submitResult, draft, nextQ, edits, acts>>

\* handleSubmit's end after onSubmit threw: the form state records the submit.
HandlerThrew(e) ==
  /\ submitQ' = submitQ \ {e}
  /\ isSubmitted' = (isSubmitted \/ e.attached)
  /\ UNCHANGED <<form, formData, isLoadingDrafts, values, errors, touched,
                 currentStep, rawStep, steps, isSubmitting, submitResult, draft,
                 nextQ, edits, acts>>

\* const finalData = { ...formData.account, ...formData.profile, ...data }
finalData(fd, d) == Spread(Spread(Opt(fd.account), Opt(fd.profile)), d)

\* The index handleAccountSubmit / handleProfileSubmit set.
StepAfter(k) == IF k = "account" THEN 1 ELSE 2

\* handleAccountSubmit / handleProfileSubmit after `await saveDraft(...)`.
stepSaved(e) ==
  /\ draft' = saveDraft(draft, e.key, e.data)
  /\ formData' = [formData EXCEPT ![e.key] = {e.data}]
  /\ SetStep(StepAfter(e.key))
  /\ isSubmitting' = FALSE
  /\ UNCHANGED submitResult
  /\ RenderStep
  /\ submitQ' = AfterRender(submitQ \ {e})

\* handlePreferencesSubmit after `await saveDraft(...)`, up to
\* `await submitOnboarding(finalData)`.
preferencesSaved(e) ==
  /\ draft' = saveDraft(draft, e.key, e.data)
  /\ submitQ' = (submitQ \ {e}) \cup
       {[e EXCEPT !.phase = "calling", !.data = finalData(e.formData, e.data)]}
  /\ UNCHANGED <<formData, currentStep, rawStep, isSubmitting, submitResult>>
  /\ KeepStepForm

\* saveDraft's promise settles: the write was made (written) or threw.
saveDraftResume(e, written) ==
  /\ form = "fps"
  /\ e \in submitQ
  /\ e.phase = "saving"
  /\ IF ~written THEN HandlerThrew(e)
     ELSE /\ IF e.key = "preferences" THEN preferencesSaved(e) ELSE stepSaved(e)
          /\ UNCHANGED <<form, isLoadingDrafts, steps, nextQ, edits, acts>>

\* What the awaited submitOnboarding(finalData) can end with.
OutcomesFPS(data) ==
  Outcomes(IF "email" \in DOMAIN data THEN data ELSE [email |-> Undefined])

\* The submitResult handlePreferencesSubmit sets from a reply.
ResultFPS(r) ==
  IF r.success THEN Result(TRUE, <<"Account created successfully! ID: ", r.id>>)
  ELSE Result(FALSE, <<OrElse(r.error, "Something went wrong")>>)

\* handlePreferencesSubmit from the reply of submitOnboarding on; a rejected
\* promise ends the handler where it awaits.
submitOnboardingResume(e, r) ==
  /\ form = "fps"
  /\ e \in submitQ
  /\ e.phase = "calling"
  /\ r \in OutcomesFPS(e.data)
  /\ IF r.rejected THEN HandlerThrew(e)
     ELSE /\ draft' = IF r.success THEN clearDrafts(draft) ELSE draft
          /\ submitResult' = ResultFPS(r)
          /\ isSubmitting' = FALSE
          /\ UNCHANGED <<formData, currentStep, rawStep>>
          /\ RenderStep
          /\ submitQ' = AfterRender(submitQ \ {e})
          /\ UNCHANGED <<form, isLoadingDrafts, steps, nextQ, edits, acts>>

\* Mutant of onBack: the step that is left hands its values to the aggregate.
onBackKeeping ==
  /\ FormMounted
  /\ currentStep > 0
  /\ ~isSubmitting
  /\ SetStep(currentStep - 1)
  /\ formData' = [formData EXCEPT ![StepKey(currentStep)] = {values}]
  /\ UNCHANGED submitResult
  /\ RenderStep
  /\ submitQ' = AfterRender(submitQ)
  /\ UNCHANGED <<form, isLoadingDrafts, steps, isSubmitting, draft, nextQ, edits,
                 acts>>

\* onBack of the Profile and the Preferences step: disabled={isLoading}.
onBack ==
  /\ FormMounted
  /\ currentStep > 0
  /\ ~isSubmitting
  /\ SetStep(currentStep - 1)
  /\ UNCHANGED <<formData, submitResult>>
  /\ RenderStep
  /\ submitQ' = AfterRender(submitQ)
  /\ UNCHANGED <<form, isLoadingDrafts, steps, isSubmitting, draft, nextQ, edits,
                 acts>>

\* FormPerStep's handleReset: the button of the success card.
handleResetFPS ==
  /\ form = "fps"
  /\ SuccessScreen
  /\ draft' = clearDrafts(draft)
  /\ formData' = NoFormData
  /\ SetStep(0)
  /\ submitResult' = NullResult
  /\ MountStep(0, formData')
  /\ UNCHANGED <<form, isLoadingDrafts, steps, isSubmitting, nextQ, submitQ, edits,
                 acts>>

NextFPS ==
  \/ \E e \in submitQ : loadAllDrafts(e)
  \/ \E f \in DOMAIN values : \E v \in StepDom(StepKey(currentStep), f) : ChangeFPS(f, v)
  \/ \E f \in DOMAIN values : BlurFPS(f)
  \/ handleStepSubmit
  \/ \E e \in submitQ : resolveStepSubmit(e)
  \/ \E e \in submitQ : \E written \in BOOLEAN : saveDraftResume(e, written)
  \/ \E e \in submitQ : \E r \in OutcomesFPS(e.data) : submitOnboardingResume(e, r)
  \/ onBack
  \/ handleResetFPS

SpecFPS == InitFPS /\ [][NextFPS]_vars

\* The three forms together.
InitAll == Init \/ InitFPS

NextAll ==
  \/ form \in Forms /\ \E f \in FormFields(form) : \E v \in Dom(form, f) : Change(f, v)
  \/ form \in Forms /\ \E f \in FormFields(form) : Blur(f)
  \/ form \in Forms /\ handleNext
  \/ form \in Forms /\ \E e \in BagToSet(nextQ) : handleNextResume(e)
  \/ form \in Forms /\ handleBack
  \/ form \in Forms /\ handleSubmit
  \/ form \in Forms /\ \E e \in submitQ : handleSubmitResume(e)
  \/ form \in Forms /\ \E e \in submitQ : \E r \in Outcomes(e.data) : onSubmitResume(e, r)
  \/ form \in Forms /\ handleReset
  \/ form = "fps" /\ \E e \in submitQ : loadAllDrafts(e)
  \/ form = "fps" /\ \E f \in DOMAIN values :
                        \E v \in StepDom(StepKey(currentStep), f) : ChangeFPS(f, v)
  \/ form = "fps" /\ \E f \in DOMAIN values : BlurFPS(f)
  \/ form = "fps" /\ handleStepSubmit
  \/ form = "fps" /\ \E e \in submitQ : resolveStepSubmit(e)
  \/ form = "fps" /\ \E e \in submitQ : \E written \in BOOLEAN : saveDraftResume(e, written)
  \/ form = "fps" /\ \E e \in submitQ :
                        \E r \in OutcomesFPS(e.data) : submitOnboardingResume(e, r)
  \/ form = "fps" /\ onBack
  \/ form = "fps" /\ handleResetFPS

SpecAll == InitAll /\ [][NextAll]_vars

\* The three forms after the user has left some fields of the first step:
\* the blur validated each of them, and no button was pressed yet.
BlurredBefore == {{}, {"email"}}

InitTouched ==
  /\ form \in Forms \cup {"fps"}
  /\ draft \in (CASE form = "multi" -> InitialDrafts
                  [] form = "cond" -> {{}}
                  [] form = "fps" -> InitialStores \ {Unparsable})
  /\ formData = IF form = "fps"
                  THEN [k \in Range(Keys) |-> Loaded(loadDraft(draft, k))]
                  ELSE NoFormData
  /\ isLoadingDrafts = FALSE
  /\ values \in (CASE form = "multi" -> {savedValues(draft)}
                   [] form = "cond" -> InitialRecords
                   [] form = "fps" -> {Mount("account", formData)})
  /\ touched \in BlurredBefore
  /\ errors = IF form = "fps"
                THEN [f \in DOMAIN values |->
                        IF f \in touched THEN StepResolver("account", values)[f]
                        ELSE NoError]
                ELSE ApplyErrors(NoErrors(form), touched, zodResolver(form, values))
  /\ isSubmitted = FALSE
  /\ currentStep = 0
  /\ rawStep = 0
  /\ steps = IF form = "fps" THEN STEPS ELSE computeSteps(form, values)
  /\ isSubmitting = FALSE
  /\ submitResult = NullResult
  /\ nextQ = EmptyBag
  /\ submitQ = {}
  /\ edits = 0
  /\ acts = <<>>

\* Runs of the three forms from the start or from there.
SpecTouched == (InitAll \/ InitTouched) /\ [][NextAll]_vars

\* A harness for the step list as a function: any field, the discriminator
\* included, takes any value, and the render recomputes the list.
DiscInputs(fm) == Dom(fm, Discriminator(fm)) \cup {"", "other"}

Inputs(fm, f) == IF f = Discriminator(fm) THEN DiscInputs(fm) ELSE Dom(fm, f)

InitSteps ==
  /\ form \in Forms
  /\ formData = NoFormData
  /\ isLoadingDrafts = FALSE
  /\ \E disc \in DiscInputs(form) :
       values = [Defaults(form) EXCEPT ![Discriminator(form)] = disc]
  /\ errors = NoErrors(form)
  /\ touched = {}
  /\ isSubmitted = FALSE
  /\ currentStep = 0
  /\ rawStep = 0
  /\ steps = computeSteps(form, values)
  /\ isSubmitting = FALSE
  /\ submitResult = NullResult
  /\ draft = {}
  /\ nextQ = EmptyBag
  /\ submitQ = {}
  /\ edits = 0
  /\ acts = <<>>

RenderWith(f, v) ==
  /\ v \in Inputs(form, f) \ {values[f]}
  /\ values' = [values EXCEPT ![f] = v]
  /\ steps' = computeSteps(form, values')
  /\ UNCHANGED <<form, errors, touched, isSubmitted, currentStep, rawStep,
                 isSubmitting, submitResult, draft, nextQ, submitQ, edits, acts>>
  /\ UNCHANGED fpsVars

NextSteps == \E f \in FormFields(form) : \E v \in Inputs(form, f) : RenderWith(f, v)

SpecSteps == InitSteps /\ [][NextSteps]_vars

\* ------------------------------------------------------------------ claims
\* The entry a handleNext step has added to nextQ.
NextAdded == CHOOSE x \in BagToSet(nextQ') : CopiesIn(x, nextQ') > CopiesIn(x, nextQ)

\* The paths of the issues the full schema reports for record d.
IssuePaths(fm, d) == {Schema(fm, d)[i].path : i \in 1..Len(Schema(fm, d))}

Calling == {e \in submitQ : e.phase = "calling"}

C1_Validates ==
  LET c == NextAdded.call
  IN /\ currentStep' = currentStep
     /\ c.len = Len(steps)
     /\ c.isValid <=> /\ StepExists(steps, currentStep)
                      /\ IssuePaths(form, values) \cap FieldsAt(steps, currentStep) = {}

C1_Gate(e) ==
  /\ ~e.call.isValid => currentStep' = currentStep
  /\ currentStep' # currentStep =>
       /\ e.call.isValid
       /\ currentStep' = Min(currentStep + 1, e.call.len - 1)

\* C1: Next (handleNext) changes currentStep only when the validation of the
\* field list of the step that was current when Next was pressed returned
\* true: pressing Next leaves the pointer, the validation is valid exactly
\* when the step exists and the full schema has no issue on one of its fields,
\* a false result leaves the pointer, and a pointer that moves goes to
\* min(old + 1, steps.length - 1).
C1_NextGatedByValidation ==
  [][/\ handleNext => C1_Validates
     /\ \A e \in BagToSet(nextQ) : handleNextResume(e) => C1_Gate(e)]_vars

\* A Next that failed on a later step: the pointer had moved, then stayed.
C1_Witness ==
  /\ currentStep >= 1
  /\ edits = 0
  /\ ~isSubmitted
  /\ nextQ = EmptyBag
  /\ \E f \in FieldsAt(steps, currentStep) : errors[f] # NoError

\* C2: a step-advance validation changes the displayed error (and the touched
\* state) of no field outside the field list of the step that was current
\* when Next was pressed.
C2_NextTouchesOnlyStepFields ==
  [][/\ handleNext =>
          /\ errors' = errors
          /\ touched' = touched
          /\ NextAdded.shown = FieldsAt(steps, currentStep)
     /\ \A e \in BagToSet(nextQ) : handleNextResume(e) =>
          \A f \in FormFields(form) \ e.shown :
            /\ errors'[f] = errors[f]
            /\ (f \in touched') = (f \in touched)]_vars

\* Next has shown the errors of the current step while an invalid field of
\* another step shows none.
C2_Witness ==
  /\ edits = 0
  /\ ~isSubmitted
  /\ nextQ = EmptyBag
  /\ \E f \in FieldsAt(steps, currentStep) : errors[f] # NoError
  /\ \E g \in FormFields(form) \ FieldsAt(steps, currentStep) :
       /\ zodResolver(form, values)[g] # NoError
       /\ errors[g] = NoError

\* C3: navigation (Next, its continuation, Back) never changes a field value,
\* so a value set on step k is still in the store after leaving k and
\* returning to it.
C3_NavigationKeepsValues ==
  [][(\/ handleNext
      \/ handleBack
      \/ \E e \in BagToSet(nextQ) : handleNextResume(e)) => values' = values]_vars

\* ConditionalStepsForm: an email typed on step 0, three steps forward (the
\* failed Next on the Virtual step left its error), three steps back.
C3_Witness ==
  /\ form = "cond"
  /\ currentStep = 0
  /\ values.email = "taken@example.com"
  /\ errors.timezone # NoError
  /\ touched = {}
  /\ ~isSubmitted

\* C4: in every reachable state 0 <= currentStep <= steps.length - 1, so that
\* steps[currentStep] is defined.
C4_IndexInBounds == 0 <= currentStep /\ currentStep <= Len(steps) - 1

C5_ClampHolds ==
  form = "cond" =>
    /\ currentStep = Min(rawStep, Len(steps) - 1)
    /\ currentStep >= 0
    /\ safeCurrentStep(currentStep, Len(steps)) = currentStep

C5_ClampFrame ==
  (form = "cond" /\ rawStep' # currentStep') =>
    /\ values' = values
    /\ nextQ' \sqsubseteq nextQ
    /\ submitQ' \subseteq submitQ
    /\ \A f \in FormFields(form) : errors'[f] # errors[f] =>
         \E e \in BagToSet(nextQ) : f \in e.call.fields /\ handleNextResume(e)

\* C5: ConditionalStepsForm's clamp: the committed currentStep is
\* min(currentStep, steps.length - 1) >= 0 of the index the render found, a
\* second application changes nothing, and a step in which the clamp acts
\* starts no validation, changes no field value, and changes no displayed
\* error but those of the validation whose continuation set the index.
C5_Clamp == [](C5_ClampHolds) /\ [][C5_ClampFrame]_vars

\* The render found an index beyond the list and re-set it.
C5_Witness == form = "cond" /\ rawStep > currentStep

Labels(stps) == [i \in 1..Len(stps) |-> stps[i].label]

ExpectedLabels(fm, disc) ==
  IF fm = "cond" THEN
    CASE disc = "in-person" -> <<"Basic Info", "Attendance", "In-Person", "Finish">>
      [] disc = "virtual" -> <<"Basic Info", "Attendance", "Virtual", "Finish">>
      [] disc = "hybrid" -> <<"Basic Info", "Attendance", "In-Person", "Virtual", "Finish">>
      [] OTHER -> <<"Basic Info", "Attendance", "Finish">>
  ELSE
    CASE disc = "business" -> <<"Account", "Profile", "Account Type", "Company">>
      [] OTHER -> <<"Account", "Profile", "Account Type">>

\* C6: the step list is a function of the discriminator alone: its labels are
\* the listed ones for every discriminator value, an unknown or unset value
\* included, and a render after a change of any other field yields the same
\* list (labels, field lists, order).
C6_StepsByDiscriminator ==
  /\ [](Labels(steps) = ExpectedLabels(form, values[Discriminator(form)]))
  /\ [][values'[Discriminator(form)] = values[Discriminator(form)] => steps' = steps]_vars

\* Hybrid, after another field has changed: both conditional steps, in order.
C6_Witness ==
  /\ form = "cond"
  /\ values.attendanceType = "hybrid"
  /\ values.name # ""
  /\ Labels(steps) = <<"Basic Info", "Attendance", "In-Person", "Virtual", "Finish">>

\* C7: in MultiStepSingleForm a Complete whose record fails the full schema
\* starts no call and sets currentStep to the index of the step of the current
\* list that owns the path of the first issue.
C7_FailedCompleteNavigates ==
  [][\A e \in submitQ :
       (form = "multi" /\ handleSubmitResume(e) /\ ~IsValidRecord(form, e.pressed)) =>
         /\ acts' = acts
         /\ currentStep' = findIndex(steps, Schema(form, e.pressed)[1].path)]_vars

\* C8: when the record of a Complete fails the full schema and no step of the
\* current step list owns the path of the first issue, the submission shows a
\* failure of its own (an error result the user sees) and currentStep is left
\* or set to an index of the list.
C8_StuckIsSignalled ==
  [][\A e \in submitQ :
       (/\ handleSubmitResume(e)
        /\ ~IsValidRecord(form, e.pressed)
        /\ findIndex(steps, Schema(form, e.pressed)[1].path) = -1) =>
         /\ submitResult' # submitResult
         /\ ~submitResult'.success
         /\ currentStep' = currentStep \/ StepExists(steps', currentStep')]_vars

\* C9: every Complete activation whose record passes the full schema starts
\* exactly one call of the endpoint, with the record as pressed: none while
\* the resolver has not answered (and the continuation is never blocked), one
\* from then on.
C9_ValidRecordOneCall ==
  \A id \in 1..Len(acts) :
    acts[id].valid =>
      /\ acts[id].same
      /\ \A e \in submitQ : (e.id = id /\ e.phase = "validating") =>
           /\ acts[id].calls = 0
           /\ ENABLED handleSubmitResume(e)
      /\ (~\E e \in submitQ : e.id = id /\ e.phase = "validating") =>
           acts[id].calls = 1

\* A valid record was pressed and its one call has started.
C9_Witness == \E id \in 1..Len(acts) : acts[id].valid /\ acts[id].calls = 1

\* C10: at most one endpoint call is outstanding at any time, and the pending
\* flag is true as long as one is.
C10_OneOutstandingCall ==
  /\ Cardinality(Calling) <= 1
  /\ Calling # {} => isSubmitting


\* C11: a {success: false, error} reply of the endpoint changes no field
\* value, leaves the persisted draft as it is, leaves currentStep, shows the
\* reply's message as a failure and ends the pending state, so that Complete
\* can be activated again; a later activation with a corrected record can
\* succeed.
C11_FailureKeepsState ==
  [][\A e \in submitQ : \A r \in Outcomes(e.data) :
       (onSubmitResume(e, r) /\ ~r.rejected /\ ~r.success) =>
         /\ values' = values
         /\ draft' = draft
         /\ currentStep' = currentStep
         /\ submitResult' = Result(FALSE, <<OrElse(r.error, "Something went wrong")>>)
         /\ ~isSubmitting'
         /\ ~SuccessScreen']_vars

\* 'This email is already registered.' was the answer to one activation; the
\* email was corrected and a later activation succeeded.
C11_Witness ==
  /\ Len(acts) = 2
  /\ acts[1].reply = "This email is already registered."
  /\ acts[2].reply = "success"
  /\ values.email = "a@b.co"
  /\ submitResult.success


\* The messages of the schemas' cross-field and conditional rules (superRefine).
CrossFieldMessages ==
  {"Passwords do not match",
   "Company name is required for business accounts",
   "Team size is required for business accounts",
   "Please specify dietary restrictions (or 'None')",
   "T-shirt size is required for in-person attendees",
   "Timezone is required for virtual attendance",
   "Please select your preferred platform"}

\* C15: the validation of a Next never reports a cross-field or conditional
\* rule of the schema: no field's displayed error becomes the message of such
\* a rule when a Next validation resolves.
C15_NextReportsNoCrossFieldRule ==
  [][\A e \in BagToSet(nextQ) : handleNextResume(e) =>
       \A f \in FormFields(form) :
         errors'[f] \in CrossFieldMessages => errors'[f] = errors[f]]_vars

\* C16: Back sets currentStep to max(currentStep - 1, 0), starts no validation
\* and changes no field value, no displayed error, no touched state and no
\* persisted draft.
C16_BackOnlyMovesPointer ==
  [][handleBack =>
       /\ currentStep' = Max(currentStep - 1, 0)
       /\ values' = values
       /\ errors' = errors
       /\ touched' = touched
       /\ draft' = draft
       /\ nextQ' = nextQ
       /\ submitQ' = submitQ]_vars

\* Back from the Virtual step, where a Next had failed: the pointer is one
\* lower and the error that Next displayed is still there.
C16_Witness ==
  /\ form = "cond"
  /\ currentStep = 2
  /\ Len(steps) = 5
  /\ errors.timezone # NoError
  /\ touched = {}
  /\ ~isSubmitted
  /\ edits = 0
  /\ nextQ = EmptyBag


RejectionHandled ==
  /\ ~submitResult'.isNull
  /\ ~submitResult'.success
  /\ submitResult'.message # <<>>
  /\ ~isSubmitting'

\* C12: a rejected endpoint call is handled like a {success: false} reply in
\* the three forms: submitResult becomes a failure with a message and the
\* pending flag is false again, so that the user can submit again.
C12_RejectionHandled ==
  [][\A e \in submitQ :
       /\ (form \in Forms /\ onSubmitResume(e, Rejection)) => RejectionHandled
       /\ (form = "fps" /\ submitOnboardingResume(e, Rejection)) => RejectionHandled]_vars

\* C13: when the endpoint replies success the persisted draft is removed and
\* submitResult becomes a success carrying the id of the reply: in the state
\* that reports success no draft is persisted.
C13_SuccessClearsDraft ==
  [][\A e \in submitQ :
       /\ form \in Forms => \A r \in Outcomes(e.data) :
            (onSubmitResume(e, r) /\ r.success) =>
              /\ draft' = {}
              /\ submitResult'.success
              /\ submitResult'.message = <<SuccessText(form), r.id>>
       /\ form = "fps" => \A r \in OutcomesFPS(e.data) :
            (submitOnboardingResume(e, r) /\ r.success) =>
              /\ draft' = {}
              /\ submitResult'.success
              /\ submitResult'.message[2] = r.id]_vars

\* FormPerStep reports success: the drafts its steps had saved are gone.
C13_Witness ==
  /\ form = "fps"
  /\ submitResult.success
  /\ submitResult.message[2] = "user_1"
  /\ formData.account # {}
  /\ draft = {}

\* C14: the reset operation after a successful submission leaves every field
\* at its default value, currentStep = 0, submitResult = null and no
\* persisted draft.
C14_ResetClearsAll ==
  [][/\ (form \in Forms /\ handleReset) =>
          /\ values' = Defaults(form)
          /\ currentStep' = 0
          /\ submitResult' = NullResult
          /\ draft' = {}
     /\ (form = "fps" /\ handleResetFPS) =>
          /\ values' = StepFormDefaults("account")
          /\ formData' = NoFormData
          /\ currentStep' = 0
          /\ submitResult' = NullResult
          /\ draft' = {}]_vars

\* C17: FormPerStep: once a step's schema has passed and its draft is saved,
\* formData holds the submitted values under the step's key, for account,
\* profile and preferences alike.
C17_AggregateHoldsSubmitted ==
  [][\A e \in submitQ :
       (form = "fps" /\ saveDraftResume(e, TRUE)) => formData'[e.key] = {e.data}]_vars

\* C18: FormPerStep's load on start sets formData[key], for each key on its
\* own, to the value persisted under the key and to undefined when there is
\* none; a saveDraft(k, d) makes loadDraft(k) return d and leaves what the
\* other keys load as it was.
C18_LoadRebuildsPerKey ==
  [][\A e \in submitQ :
       /\ (form = "fps" /\ loadAllDrafts(e) /\ Parses(draft)) =>
            \A k \in Range(Keys) :
              formData'[k] = {x.data : x \in {y \in draft : y.key = k}}
       /\ (form = "fps" /\ saveDraftResume(e, TRUE)) =>
            /\ loadDraft(draft', e.key).success
            /\ loadDraft(draft', e.key).data = {e.data}
            /\ \A k \in Range(Keys) \ {e.key} :
                 loadDraft(draft', k) = loadDraft(draft, k)]_vars

\* The load has ended with a profile draft alone in the store.
C18_Witness ==
  /\ form = "fps"
  /\ ~isLoadingDrafts
  /\ edits = 0
  /\ currentStep = 0
  /\ formData.account = {}
  /\ formData.profile = {ValidProfile}
  /\ formData.preferences = {}
  /\ values = StepFormDefaults("account")

C20_FailedWriteDoesNotBlock ==
  [][\A e \in submitQ :
       (form = "fps" /\ saveDraftResume(e, FALSE)) =>
         /\ e.key # "preferences" =>
              ~isSubmitting' /\ currentStep' = StepAfter(e.key)
         /\ e.key = "preferences" =>
              \E c \in submitQ' : c.id = e.id /\ c.phase = "calling"]_vars

\* The resolver reports an issue for field f of the mounted form's values d.
FieldInvalid(d, f) ==
  IF form = "fps" THEN StepResolver(StepKey(currentStep), d)[f] # NoError
  ELSE zodResolver(form, d)[f] # NoError

\* What the onTouched policy makes of a change of field f.
ChangeFollowsPolicy(f) ==
  /\ (f \notin touched /\ ~isSubmitted) => errors'[f] = errors[f]
  /\ f \in touched => (errors'[f] # NoError <=> FieldInvalid(values', f))

\* What the onTouched policy makes of a blur of field f.
BlurFollowsPolicy(f) ==
  (~isSubmitted /\ FieldInvalid(values, f)) => errors'[f] # NoError

C22_WritesIdempotentAnyOrder ==
  [][/\ \A e \in submitQ :
          (form = "fps" /\ saveDraftResume(e, TRUE)) =>
            /\ saveDraft(draft', e.key, e.data) = draft'
            /\ \A o \in submitQ \ {e} :
                 (o.phase = "saving") =>
                   LET thenOther == saveDraft(draft', o.key, o.data)
                       otherFirst == saveDraft(saveDraft(draft, o.key, o.data),
                                               e.key, e.data)
                   IN /\ o.key # e.key =>
                           /\ thenOther = otherFirst
                           /\ loadDraft(thenOther, e.key).data = {e.data}
                           /\ loadDraft(thenOther, o.key).data = {o.data}
                      /\ o.key = e.key =>
                           /\ loadDraft(thenOther, e.key).data = {o.data}
                           /\ loadDraft(otherFirst, e.key).data = {e.data}
     /\ form = "multi" =>
          \A f \in FormFields(form) : \A v \in Dom(form, f) :
            Change(f, v) => AutoSave(form, draft', values') = draft']_vars

\* Two saveDraft calls are in flight: one of the Account step that was left,
\* one of the Profile step.
C22_Witness ==
  /\ form = "fps"
  /\ \E e \in submitQ : e.phase = "saving" /\ e.key = "account" /\ ~e.attached
  /\ \E o \in submitQ : o.phase = "saving" /\ o.key = "profile"

\* The form has answered the outcome r of a call: submitResult is set from it
\* and the pending flag is false.
Answered(r) ==
  /\ ~submitResult'.isNull
  /\ submitResult'.success = r.success
  /\ ~isSubmitting'

\* C23: every endpoint call that was started and has completed, by success,
\* failure or rejection, is answered by the form: submitResult is set from
\* the outcome and the pending flag is false once the call has completed.
C23_CompletedCallAnswered ==
  [][\A e \in submitQ :
       /\ form \in Forms =>
            \A r \in Outcomes(e.data) : onSubmitResume(e, r) => Answered(r)
       /\ form = "fps" =>
            \A r \in OutcomesFPS(e.data) :
              submitOnboardingResume(e, r) => Answered(r)]_vars

\* The message the claim expects after the outcome r of a failed call.
FailureMessage(r) ==
  IF r.rejected THEN "Network error. Please try again."
  ELSE IF r.error \in {"", Undefined} THEN "Something went wrong"
  ELSE r.error

\* C24: after a failed submission of MultiStepSingleForm or
\* ConditionalStepsForm the message shown is the endpoint's error string when
\* the reply has one, "Something went wrong" when it has none and "Network
\* error. Please try again." when the call rejected; the entered values and
\* the draft stay as they are.
C24_FailureMessage ==
  [][\A e \in submitQ :
       form \in Forms =>
         \A r \in Outcomes(e.data) :
           (onSubmitResume(e, r) /\ ~r.success) =>
             /\ ~submitResult'.isNull
             /\ ~submitResult'.success
             /\ submitResult'.message = <<FailureMessage(r)>>
             /\ values' = values
             /\ draft' = draft]_vars

\* A reply without an error string was answered with the generic message.
C24_Witness ==
  /\ form \in Forms
  /\ submitResult = Result(FALSE, <<"Something went wrong">>)
  /\ ~isSubmitting
  /\ IsValidRecord(form, values)

\* C25: MultiStepSingleForm persists the whole record on every mutation: after
\* a field change the draft under STORAGE_KEY is the snapshot of the whole
\* store, and a form started while that draft is stored begins at step 0 with
\* those values overlaid on the defaults, which are the values of the store
\* that saved them.
C25_DraftIsWholeRecord ==
  [][/\ form = "multi" =>
          \A f \in FormFields(form) : \A v \in Dom(form, f) :
            Change(f, v) =>
              /\ draft' = {JSONRoundTrip(values')}
              /\ savedValues(draft') = values'
     /\ (Start /\ edits > 0 /\ draft # {}) =>
          /\ currentStep' = 0
          /\ values' = Overlay(defaultOnboardingValues, CHOOSE d \in draft : TRUE)
          /\ (draft = {JSONRoundTrip(values)} => values' = values)]_vars

\* A field was changed and the page loaded again while a call was under way:
\* the form is at step 0 with the values of the draft.
C25_Witness ==
  /\ form = "multi"
  /\ edits = 1
  /\ Len(acts) = 1
  /\ acts[1].calls = 1
  /\ acts[1].reply = Null
  /\ submitQ = {}
  /\ currentStep = 0
  /\ draft = {JSONRoundTrip(values)}

\* C26: Next never skips a step: the pointer of MultiStepSingleForm and of
\* ConditionalStepsForm moves forward only when a validation of the fields of
\* the step it leaves has succeeded, and then by one step, also when Next
\* activations overlap.
C26_NextNeverSkips ==
  [][\A e \in BagToSet(nextQ) :
       (handleNextResume(e) /\ currentStep' > currentStep) =>
         /\ e.call.isValid
         /\ e.call.fields = FieldsAt(steps, currentStep)
         /\ currentStep' = currentStep + 1]_vars

\* C27: the endpoint is called from the last step only: when a call of
\* submitOnboarding starts in MultiStepSingleForm or ConditionalStepsForm,
\* currentStep is the last index of the step list of the record that is sent.
C27_CallOnlyFromLastStep ==
  [][\A e \in submitQ :
       (/\ form \in Forms
        /\ handleSubmitResume(e)
        /\ \E c \in submitQ' : c.id = e.id /\ c.phase = "calling") =>
         /\ currentStep = Len(computeSteps(form, e.data)) - 1
         /\ currentStep' = currentStep]_vars

\* C28: a change of the discriminator that takes a conditional step out of
\* the step list changes the value of no other field: the values of the
\* step's fields stay in the store, and the record passed to the endpoint
\* holds, for every field, the value the store had when Complete was
\* activated, the fields of steps that are not in the list included.
C28_HiddenStepKeepsValues ==
  [][/\ \A v \in Dom(form, Discriminator(form)) :
          (form \in Forms /\ Change(Discriminator(form), v)) =>
            \A g \in FormFields(form) \ {Discriminator(form)} :
              values'[g] = values[g]
     /\ \A e \in submitQ :
          (form \in Forms /\ handleSubmitResume(e)) =>
            \A c \in submitQ' :
              (c.id = e.id /\ c.phase = "calling") =>
                \A g \in FormFields(form) : c.data[g] = e.pressed[g]]_vars

\* A business account with its company filled in was changed to personal, and
\* the call that is under way carries the company's values.
C28_Witness ==
  /\ form = "multi"
  /\ edits = 1
  /\ values.accountType = "personal"
  /\ values.companyName = "Acme"
  /\ Len(steps) = 3
  /\ \E c \in submitQ :
       /\ c.phase = "calling"
       /\ c.data.accountType = "personal"
       /\ c.data.companyName = "Acme"
       /\ c.data.teamSize = "5"

\* The step is an activation of the reset button of the success screen.
IsReset == (form \in Forms /\ handleReset) \/ (form = "fps" /\ handleResetFPS)

\* The calls of submitOnboarding that are under way.
CallsUnderWay == {e.id : e \in {x \in submitQ : x.phase = "calling"}}

\* C29: the success state is absorbing until reset: while submitResult.success
\* holds, no step other than the reset changes submitResult or currentStep or
\* starts a call of the endpoint.
C29_SuccessAbsorbing ==
  [][(SuccessScreen /\ ~IsReset) =>
       /\ submitResult' = submitResult
       /\ currentStep' = currentStep
       /\ CallsUnderWay' \subseteq CallsUnderWay]_vars

\* What is persisted for key k.
DraftEntry(store, k) == {x \in store : x.key = k}

\* The step changes the aggregate's entry or the persisted draft of key k.
EntryChanges(k) ==
  formData'[k] # formData[k] \/ DraftEntry(draft', k) # DraftEntry(draft, k)

IsLoad == \E e \in submitQ : loadAllDrafts(e)

\* The step ends a successful local submission of step k: its draft is saved.
IsLocalSubmission(k) == \E e \in submitQ : e.key = k /\ saveDraftResume(e, TRUE)

\* The step answers a success reply of the endpoint.
IsFinalSuccess ==
  \E e \in submitQ : \E r \in OutcomesFPS(e.data) :
    r.success /\ submitOnboardingResume(e, r)

\* Back shows the step before with the aggregate's values for it.
BackDiscardsEdits ==
  onBack => /\ formData' = formData
            /\ draft' = draft
            /\ values' = Mount(StepKey(currentStep - 1), formData)

\* C30 as stated: FormPerStep's formData[k] and the persisted draft of step k
\* change only through the load on start, a successful local submission of
\* step k, or reset; Back and unsubmitted edits change neither.
C30_EntriesChangeOnlyByOwnStep ==
  [][form = "fps" =>
       /\ \A k \in Range(Keys) :
            EntryChanges(k) => (IsLoad \/ IsLocalSubmission(k) \/ handleResetFPS)
       /\ BackDiscardsEdits]_vars

\* C30, amended: formData[k] and the persisted draft of step k change only
\* through the load on start, a successful local submission of step k, the
\* endpoint's success reply (which removes every persisted draft), or reset;
\* Back and unsubmitted edits change neither, and Back shows the step before
\* with the aggregate's values.
C30_EntriesChangeOnlyByOwnStepOrSuccess ==
  [][form = "fps" =>
       /\ \A k \in Range(Keys) :
            EntryChanges(k) =>
              (IsLoad \/ IsLocalSubmission(k) \/ IsFinalSuccess \/ handleResetFPS)
       /\ \A k \in Range(Keys) : formData'[k] # formData[k] =>
              (IsLoad \/ IsLocalSubmission(k) \/ handleResetFPS)
       /\ BackDiscardsEdits]_vars

\* A first name was typed on the Profile step and not submitted: neither the
\* aggregate nor the store has a profile.
C30_Witness ==
  /\ form = "fps"
  /\ currentStep = 1
  /\ edits = 1
  /\ values = [StepFormDefaults("profile") EXCEPT !.firstName = "Ada"]
  /\ formData.account = {ValidAccount}
  /\ formData.profile = {}
  /\ ~HasDraft(draft, "profile")

====
